---- MODULE Spec2Model ----
(***************************************************************************)
(* Model of the backtester statistics store and results aggregator         *)
(* (backtester/eventhandlers/statistics/statistics.go), of the order       *)
(* sizing engine exercised by portfolio/size/size_test.go, and of the      *)
(* best-performer selectors.                                               *)
(***************************************************************************)
EXTENDS Integers, Sequences, FiniteSets, TLC

VARIABLES
    s,          \* the Statistic struct
    ret,        \* the last call on the Statistic: its name and the error it returned
    fundLog,    \* events handed to funds.GetFundingForEvent by the last CalculateAllResults
    reportLog,  \* spans handed to funds.GenerateReport by the last CalculateAllResults
    errLog,     \* tuples whose CalculateResults error the last CalculateAllResults logged
    printLog,   \* what the last PrintAllEventsChronologically logged: buckets and errors
    calls,      \* number of calls made on the Statistic so far
    best,       \* the last call of the three best-performer selectors on a results list
    size        \* the last call on the sizing engine: its arguments and its result

storeVars == <<s, ret, fundLog, reportLog, errLog, printLog, calls>>
vars == <<s, ret, fundLog, reportLog, errLog, printLog, calls, best, size>>

----------------------------------------------------------------------------
\* Bounds of the model.

MaxCalls == 3
MaxResults == 3

Exchanges == {"e1", "e2"}
Assets == {"spot"}
Pairs == {"BTC-USD"}
Times == {1, 2}
Offsets == {1, 2}

----------------------------------------------------------------------------
\* Values.

\* a nil interface value (event) or nil pointer
NilEvent == [kind |-> "nil"]

\* the zero time.Time
ZeroTime == 0

EventsOfKind(k, times) ==
    [kind : {k}, Exchange : Exchanges, Asset : Assets, Pair : Pairs,
     Time : times, Offset : Offsets]

\* common.DataEventHandler values (kline events)
DataEvents == EventsOfKind("data", Times)
\* signal.Event, order.Event and fill.Event values
SignalEvents == EventsOfKind("signal", Times)
OrderEvents == EventsOfKind("order", {1})
FillEvents == EventsOfKind("fill", Times)
\* the fill events AddComplianceSnapshotForTime is called with
ComplianceEvents == EventsOfKind("fill", {1})
\* an common.EventHandler that is none of the four kinds
OtherEvents == EventsOfKind("other", {1})

\* every common.EventHandler the event loop hands over
EventHandlers == DataEvents \cup SignalEvents \cup OrderEvents \cup FillEvents \cup OtherEvents

\* holdings.Holding: its zero value and the snapshots the portfolio hands over
ZeroHolding == [Exchange |-> "", Asset |-> "", Pair |-> "", Offset |-> 0, TotalValue |-> 0]
Holdings == [Exchange : Exchanges, Asset : Assets, Pair : Pairs, Offset : Offsets, TotalValue : {1}]

\* compliance.Snapshot: its zero value and the snapshots the portfolio hands over
ZeroSnapshot == [Orders |-> 0]
Snapshots == [Orders : {1}]

\* errors
NoError == "nil"
ErrNilEvent == "common.ErrNilEvent"
ErrAlreadyProcessed == "ErrAlreadyProcessed"
errExchangeAssetPairStatsUnset == "errExchangeAssetPairStatsUnset"
errCurrencyStatisticsUnset == "errCurrencyStatisticsUnset"
errUnknownEventType == "unknown event type received"
errFunding == "funding error"

\* the empty Go map
EmptyMap == [k \in {} |-> 0]

\* m[k] = v
MapSet(m, k, v) == (k :> v) @@ m

\* NewEventStore without its DataEvent field set (EventStore{})
NewEventStore_NoDataEvent(ev) ==
    [DataEvent |-> NilEvent, SignalEvent |-> NilEvent, OrderEvent |-> NilEvent,
     FillEvent |-> NilEvent, Holdings |-> ZeroHolding, Transactions |-> ZeroSnapshot]

\* currencystatistics.EventStore{DataEvent: ev}
NewEventStore(ev) ==
    [DataEvent |-> ev, SignalEvent |-> NilEvent, OrderEvent |-> NilEvent,
     FillEvent |-> NilEvent, Holdings |-> ZeroHolding, Transactions |-> ZeroSnapshot]

\* &currencystatistics.CurrencyStatistic{}
NewCurrencyStatistic ==
    [Events |-> <<>>, FinalHoldings |-> ZeroHolding, InitialHoldings |-> ZeroHolding,
     FinalOrders |-> ZeroSnapshot, MaxDrawdown |-> 0, MarketMovement |-> 0,
     StrategyMovement |-> 0, BuyOrders |-> 0, SellOrders |-> 0,
     ShowMissingDataWarning |-> FALSE]

\* a nil *CurrencyStatistic
NilStat == [kind |-> "nil"]

\* a nil *FinalResultsHolder and the zero FinalResultsHolder{}
NilHolder == [kind |-> "nil"]
ZeroHolder ==
    [Exchange |-> "", Asset |-> "", Pair |-> "", MaxDrawdown |-> 0,
     MarketMovement |-> 0, StrategyMovement |-> 0]

\* a nil *funding.Report
NilReport == [kind |-> "nil"]

\* Statistic{}
ZeroStatistic ==
    [mapIsNil |-> TRUE, ExchangeAssetPairStatistics |-> EmptyMap, AllStats |-> <<>>,
     TotalBuyOrders |-> 0, TotalSellOrders |-> 0, TotalOrders |-> 0,
     WasAnyDataMissing |-> FALSE, Funding |-> NilReport,
     BiggestDrawdown |-> NilHolder, BestMarketMovement |-> NilHolder,
     BestStrategyResults |-> NilHolder]

----------------------------------------------------------------------------
\* The nested exchange -> asset -> pair map.

\* s.ExchangeAssetPairStatistics[ex][a][p], nil when a level or the key is missing
Lookup(m, ex, a, p) ==
    IF ex \in DOMAIN m /\ a \in DOMAIN m[ex] /\ p \in DOMAIN m[ex][a]
    THEN m[ex][a][p]
    ELSE NilStat

\* s.ExchangeAssetPairStatistics[ex][a][p] = stat, the levels being there
Store(m, ex, a, p, stat) ==
    MapSet(m, ex, MapSet(m[ex], a, MapSet(m[ex][a], p, stat)))

\* the map after setupMap(ex, a)
setupMap(m, ex, a) ==
    LET m1 == IF ex \in DOMAIN m THEN m ELSE MapSet(m, ex, EmptyMap)
    IN  IF a \in DOMAIN m1[ex] THEN m1 ELSE MapSet(m1, ex, MapSet(m1[ex], a, EmptyMap))

\* the tuples that have a Timeline
TuplesOf(m) ==
    {t \in Exchanges \X Assets \X Pairs : Lookup(m, t[1], t[2], t[3]) # NilStat}

Return(op, err) == ret' = [op |-> op, err |-> err]

\* nothing logged yet
NoOutput == [results |-> <<>>, errs |-> <<>>]

NoCalc == /\ fundLog' = <<>>
          /\ reportLog' = <<>>
          /\ errLog' = {}
          /\ printLog' = NoOutput

----------------------------------------------------------------------------
\* Reset

Reset ==
    /\ s' = ZeroStatistic
    /\ Return("Reset", NoError)
    /\ NoCalc

----------------------------------------------------------------------------
\* SetupEventForTime

\* SameEvent with the times compared by After instead of Equal
SameEvent_TimeAfter(d, ev) ==
    /\ d.Time > ev.Time
    /\ d.Exchange = ev.Exchange
    /\ d.Asset = ev.Asset
    /\ d.Pair = ev.Pair
    /\ d.Offset = ev.Offset

\* the duplicate test of SetupEventForTime's scan
SameEvent(d, ev) ==
    /\ d.Time = ev.Time
    /\ d.Exchange = ev.Exchange
    /\ d.Asset = ev.Asset
    /\ d.Pair = ev.Pair
    /\ d.Offset = ev.Offset

\* SetupEventForTime making the map before it looks at the event
SetupEventForTime_MapFirst(ev) ==
    /\ NoCalc
    /\ IF ev = NilEvent
       THEN /\ Return("SetupEventForTime", ErrNilEvent)
            /\ s' = [s EXCEPT !.mapIsNil = FALSE]
       ELSE LET ex == ev.Exchange
                a == ev.Asset
                p == ev.Pair
                m == setupMap(s.ExchangeAssetPairStatistics, ex, a)
                found == Lookup(m, ex, a, p)
                lookup == IF found = NilStat THEN NewCurrencyStatistic ELSE found
            IN  IF \E i \in 1..Len(lookup.Events) : SameEvent(lookup.Events[i].DataEvent, ev)
                THEN /\ Return("SetupEventForTime", ErrAlreadyProcessed)
                     /\ s' = [s EXCEPT !.mapIsNil = FALSE,
                                       !.ExchangeAssetPairStatistics = m]
                ELSE /\ Return("SetupEventForTime", NoError)
                     /\ s' = [s EXCEPT !.mapIsNil = FALSE,
                                       !.ExchangeAssetPairStatistics =
                                           Store(m, ex, a, p,
                                                 [lookup EXCEPT !.Events =
                                                     Append(@, NewEventStore(ev))])]

\* SetupEventForTime appending to a copy of a Timeline it has just made, the
\* map getting the Timeline without the record
SetupEventForTime_AppendToCopy(ev) ==
    /\ NoCalc
    /\ IF ev = NilEvent
       THEN /\ Return("SetupEventForTime", ErrNilEvent)
            /\ UNCHANGED s
       ELSE LET ex == ev.Exchange
                a == ev.Asset
                p == ev.Pair
                m == setupMap(s.ExchangeAssetPairStatistics, ex, a)
                found == Lookup(m, ex, a, p)
                lookup == IF found = NilStat THEN NewCurrencyStatistic ELSE found
            IN  IF \E i \in 1..Len(lookup.Events) : SameEvent(lookup.Events[i].DataEvent, ev)
                THEN /\ Return("SetupEventForTime", ErrAlreadyProcessed)
                     /\ s' = [s EXCEPT !.mapIsNil = FALSE,
                                       !.ExchangeAssetPairStatistics = m]
                ELSE /\ Return("SetupEventForTime", NoError)
                     /\ s' = [s EXCEPT !.mapIsNil = FALSE,
                                       !.ExchangeAssetPairStatistics =
                                           Store(m, ex, a, p,
                                                 IF found = NilStat
                                                 THEN lookup
                                                 ELSE [lookup EXCEPT !.Events =
                                                         Append(@, NewEventStore(ev))])]

SetupEventForTime(ev) ==
    /\ NoCalc
    /\ IF ev = NilEvent
       THEN /\ Return("SetupEventForTime", ErrNilEvent)
            /\ UNCHANGED s
       ELSE LET ex == ev.Exchange
                a == ev.Asset
                p == ev.Pair
                m == setupMap(s.ExchangeAssetPairStatistics, ex, a)
                found == Lookup(m, ex, a, p)
                lookup == IF found = NilStat THEN NewCurrencyStatistic ELSE found
            IN  IF \E i \in 1..Len(lookup.Events) : SameEvent(lookup.Events[i].DataEvent, ev)
                THEN /\ Return("SetupEventForTime", ErrAlreadyProcessed)
                     /\ s' = [s EXCEPT !.mapIsNil = FALSE,
                                       !.ExchangeAssetPairStatistics = m]
                ELSE /\ Return("SetupEventForTime", NoError)
                     /\ s' = [s EXCEPT !.mapIsNil = FALSE,
                                       !.ExchangeAssetPairStatistics =
                                           Store(m, ex, a, p,
                                                 [lookup EXCEPT !.Events =
                                                     Append(@, NewEventStore(ev))])]

----------------------------------------------------------------------------
\* SetEventForOffset, AddHoldingsForTime, AddComplianceSnapshotForTime

\* ScanBackward scanning from the oldest record forward
ScanBackward_Forward(events, offset) ==
    LET hits == {i \in 1..Len(events) : events[i].DataEvent.Offset = offset}
    IN  IF hits = {} THEN 0 ELSE CHOOSE i \in hits : \A j \in hits : i <= j

\* ScanBackward settling for the most recent record when none has the offset
ScanBackward_OrLatest(events, offset) ==
    LET hits == {i \in 1..Len(events) : events[i].DataEvent.Offset = offset}
    IN  IF hits = {} THEN Len(events) ELSE CHOOSE i \in hits : \A j \in hits : j <= i

\* the index the backward scan stops at: the last record whose DataEvent has
\* the offset, 0 when the scan finds none
ScanBackward(events, offset) ==
    LET hits == {i \in 1..Len(events) : events[i].DataEvent.Offset = offset}
    IN  IF hits = {} THEN 0 ELSE CHOOSE i \in hits : \A j \in hits : j <= i

\* applyEventAtOffset with a signal event taken by the market-data case
applyEventAtOffset_SignalAsData(ev, lookup, i) ==
    CASE ev.kind \in {"data", "signal"} ->
            [stat |-> [lookup EXCEPT !.Events[i].DataEvent = ev], err |-> NoError]
      [] ev.kind = "order" ->
            [stat |-> [lookup EXCEPT !.Events[i].OrderEvent = ev], err |-> NoError]
      [] ev.kind = "fill" ->
            [stat |-> [lookup EXCEPT !.Events[i].FillEvent = ev], err |-> NoError]
      [] OTHER ->
            [stat |-> lookup, err |-> errUnknownEventType]

\* applyEventAtOffset: the Timeline after the type switch and the error returned
applyEventAtOffset(ev, lookup, i) ==
    CASE ev.kind = "data" ->
            [stat |-> [lookup EXCEPT !.Events[i].DataEvent = ev], err |-> NoError]
      [] ev.kind = "signal" ->
            [stat |-> [lookup EXCEPT !.Events[i].SignalEvent = ev], err |-> NoError]
      [] ev.kind = "order" ->
            [stat |-> [lookup EXCEPT !.Events[i].OrderEvent = ev], err |-> NoError]
      [] ev.kind = "fill" ->
            [stat |-> [lookup EXCEPT !.Events[i].FillEvent = ev], err |-> NoError]
      [] OTHER ->
            [stat |-> lookup, err |-> errUnknownEventType]

\* SetEventForOffset calling setupMap as SetupEventForTime does
SetEventForOffset_SetupMap(ev) ==
    /\ NoCalc
    /\ IF ev = NilEvent
       THEN Return("SetEventForOffset", ErrNilEvent) /\ UNCHANGED s
       ELSE LET m == setupMap(s.ExchangeAssetPairStatistics, ev.Exchange, ev.Asset)
                lookup == Lookup(m, ev.Exchange, ev.Asset, ev.Pair)
            IN  IF lookup = NilStat
                THEN /\ Return("SetEventForOffset", errCurrencyStatisticsUnset)
                     /\ s' = [s EXCEPT !.mapIsNil = FALSE,
                                       !.ExchangeAssetPairStatistics = m]
                ELSE LET i == ScanBackward(lookup.Events, ev.Offset)
                     IN  IF i = 0
                         THEN Return("SetEventForOffset", NoError) /\ UNCHANGED s
                         ELSE LET r == applyEventAtOffset(ev, lookup, i)
                              IN  /\ Return("SetEventForOffset", r.err)
                                  /\ s' = [s EXCEPT !.ExchangeAssetPairStatistics =
                                              Store(m, ev.Exchange, ev.Asset, ev.Pair, r.stat)]

SetEventForOffset(ev) ==
    /\ NoCalc
    /\ IF ev = NilEvent
       THEN Return("SetEventForOffset", ErrNilEvent) /\ UNCHANGED s
       ELSE IF s.mapIsNil
       THEN Return("SetEventForOffset", errExchangeAssetPairStatsUnset) /\ UNCHANGED s
       ELSE LET m == s.ExchangeAssetPairStatistics
                lookup == Lookup(m, ev.Exchange, ev.Asset, ev.Pair)
            IN  IF lookup = NilStat
                THEN Return("SetEventForOffset", errCurrencyStatisticsUnset) /\ UNCHANGED s
                ELSE LET i == ScanBackward(lookup.Events, ev.Offset)
                     IN  IF i = 0
                         THEN Return("SetEventForOffset", NoError) /\ UNCHANGED s
                         ELSE LET r == applyEventAtOffset(ev, lookup, i)
                              IN  /\ Return("SetEventForOffset", r.err)
                                  /\ s' = [s EXCEPT !.ExchangeAssetPairStatistics =
                                              Store(m, ev.Exchange, ev.Asset, ev.Pair, r.stat)]

AddHoldingsForTime(h) ==
    /\ NoCalc
    /\ IF s.mapIsNil
       THEN Return("AddHoldingsForTime", errExchangeAssetPairStatsUnset) /\ UNCHANGED s
       ELSE LET m == s.ExchangeAssetPairStatistics
                lookup == Lookup(m, h.Exchange, h.Asset, h.Pair)
            IN  IF lookup = NilStat
                THEN Return("AddHoldingsForTime", errCurrencyStatisticsUnset) /\ UNCHANGED s
                ELSE LET i == ScanBackward(lookup.Events, h.Offset)
                     IN  /\ Return("AddHoldingsForTime", NoError)
                         /\ IF i = 0
                            THEN UNCHANGED s
                            ELSE s' = [s EXCEPT !.ExchangeAssetPairStatistics =
                                          Store(m, h.Exchange, h.Asset, h.Pair,
                                                [lookup EXCEPT !.Events[i].Holdings = h])]

\* AddComplianceSnapshotForTime looking at the store before the event
AddComplianceSnapshotForTime_StoreFirst(c, e) ==
    /\ NoCalc
    /\ IF s.mapIsNil
       THEN Return("AddComplianceSnapshotForTime", errExchangeAssetPairStatsUnset)
            /\ UNCHANGED s
       ELSE IF e = NilEvent
       THEN Return("AddComplianceSnapshotForTime", ErrNilEvent) /\ UNCHANGED s
       ELSE LET m == s.ExchangeAssetPairStatistics
                lookup == Lookup(m, e.Exchange, e.Asset, e.Pair)
            IN  IF lookup = NilStat
                THEN Return("AddComplianceSnapshotForTime", errCurrencyStatisticsUnset)
                     /\ UNCHANGED s
                ELSE LET i == ScanBackward(lookup.Events, e.Offset)
                     IN  /\ Return("AddComplianceSnapshotForTime", NoError)
                         /\ IF i = 0
                            THEN UNCHANGED s
                            ELSE s' = [s EXCEPT !.ExchangeAssetPairStatistics =
                                          Store(m, e.Exchange, e.Asset, e.Pair,
                                                [lookup EXCEPT !.Events[i].Transactions = c])]

AddComplianceSnapshotForTime(c, e) ==
    /\ NoCalc
    /\ IF e = NilEvent
       THEN Return("AddComplianceSnapshotForTime", ErrNilEvent) /\ UNCHANGED s
       ELSE IF s.mapIsNil
       THEN Return("AddComplianceSnapshotForTime", errExchangeAssetPairStatsUnset)
            /\ UNCHANGED s
       ELSE LET m == s.ExchangeAssetPairStatistics
                lookup == Lookup(m, e.Exchange, e.Asset, e.Pair)
            IN  IF lookup = NilStat
                THEN Return("AddComplianceSnapshotForTime", errCurrencyStatisticsUnset)
                     /\ UNCHANGED s
                ELSE LET i == ScanBackward(lookup.Events, e.Offset)
                     IN  /\ Return("AddComplianceSnapshotForTime", NoError)
                         /\ IF i = 0
                            THEN UNCHANGED s
                            ELSE s' = [s EXCEPT !.ExchangeAssetPairStatistics =
                                          Store(m, e.Exchange, e.Asset, e.Pair,
                                                [lookup EXCEPT !.Events[i].Transactions = c])]

----------------------------------------------------------------------------
\* The best-performer selectors. A selector returns a pointer: into results
\* (index i >= 1) or to the FinalResultsHolder{} it started from (index 0).

\* the holder a selector's index points at
HolderAt(results, idx) == IF idx = 0 THEN ZeroHolder ELSE results[idx]

\* GetBestMarketPerformer: the loop leaves at its first replacement (break)
RECURSIVE MarketLoop(_, _, _)
MarketLoop(results, i, result) ==
    IF i > Len(results) THEN result
    ELSE IF \/ results[i].MarketMovement > HolderAt(results, result).MarketMovement
            \/ HolderAt(results, result).MarketMovement = 0
         THEN i
         ELSE MarketLoop(results, i + 1, result)

GetBestMarketPerformer(results) == MarketLoop(results, 1, 0)

\* GetBestStrategyPerformer
RECURSIVE StrategyLoop(_, _, _)
StrategyLoop(results, i, result) ==
    IF i > Len(results) THEN result
    ELSE IF \/ results[i].StrategyMovement > HolderAt(results, result).StrategyMovement
            \/ HolderAt(results, result).StrategyMovement = 0
         THEN StrategyLoop(results, i + 1, i)
         ELSE StrategyLoop(results, i + 1, result)

GetBestStrategyPerformer(results) == StrategyLoop(results, 1, 0)

\* GetTheBiggestDrawdownAcrossCurrencies
RECURSIVE DrawdownLoop(_, _, _)
DrawdownLoop(results, i, result) ==
    IF i > Len(results) THEN result
    ELSE IF \/ results[i].MaxDrawdown > HolderAt(results, result).MaxDrawdown
            \/ HolderAt(results, result).MaxDrawdown = 0
         THEN DrawdownLoop(results, i + 1, i)
         ELSE DrawdownLoop(results, i + 1, result)

GetTheBiggestDrawdownAcrossCurrencies(results) == DrawdownLoop(results, 1, 0)

----------------------------------------------------------------------------
\* CalculateAllResults

\* the orders in which the three nested range loops may visit the tuples
IterationOrders(m) ==
    LET T == TuplesOf(m)
        n == Cardinality(T)
    IN  {q \in [1..n -> T] :
            /\ \A i, j \in 1..n : i # j => q[i] # q[j]
            /\ \A i, j, k \in 1..n :
                  (i < j /\ j < k) =>
                      /\ (q[i][1] = q[k][1] => q[j][1] = q[i][1])
                      /\ (q[i][1] = q[k][1] /\ q[i][2] = q[k][2] => q[j][2] = q[i][2])}

\* the message fmt.Sprintf renders for an event: its time, exchange, asset and
\* pair, and the price and reason of its kind
Sprintf(ev) ==
    [kind |-> ev.kind, Time |-> ev.Time, Exchange |-> ev.Exchange,
     Asset |-> ev.Asset, Pair |-> ev.Pair]

\* addEventOutputToTime: the message joins the first bucket of time t, or a new
\* bucket appended for it
addEventOutputToTime(events, t, message) ==
    LET hits == {i \in 1..Len(events) : events[i].Time = t}
    IN  IF hits # {}
        THEN LET i == CHOOSE h \in hits : \A j \in hits : h <= j
             IN  [events EXCEPT ![i].Events = Append(@, message)]
        ELSE Append(events, [Time |-> t, Events |-> <<message>>])

\* the switch of PrintAllEventsChronologically on one record
PrintRecord(out, t, i, record) ==
    IF record.FillEvent # NilEvent
    THEN [out EXCEPT !.results = addEventOutputToTime(@, record.FillEvent.Time,
                                                      Sprintf(record.FillEvent))]
    ELSE IF record.SignalEvent # NilEvent
    THEN [out EXCEPT !.results = addEventOutputToTime(@, record.SignalEvent.Time,
                                                      Sprintf(record.SignalEvent))]
    ELSE IF record.DataEvent # NilEvent
    THEN [out EXCEPT !.results = addEventOutputToTime(@, record.DataEvent.Time,
                                                      Sprintf(record.DataEvent))]
    ELSE [out EXCEPT !.errs = Append(@, [tuple |-> t, record |-> record])]

\* the loop over the records of tuple t from the i-th on
RECURSIVE PrintTimeline(_, _, _, _)
PrintTimeline(out, t, events, i) ==
    IF i > Len(events) THEN out
    ELSE PrintTimeline(PrintRecord(out, t, i, events[i]), t, events, i + 1)

\* the loops over the tuples, visited in the given order, from the k-th on
RECURSIVE PrintLoop(_, _, _, _)
PrintLoop(out, m, order, k) ==
    IF k > Len(order) THEN out
    ELSE LET t == order[k]
         IN  PrintLoop(PrintTimeline(out, t, Lookup(m, t[1], t[2], t[3]).Events, 1),
                       m, order, k + 1)

\* SortSlice with the comparison turned round (After for Before)
SortSlice_Descending(results) ==
    LET n == Len(results)
    IN  {[i \in 1..n |-> results[q[i]]] :
            q \in {q \in [1..n -> 1..n] :
                      /\ \A i, j \in 1..n : i # j => q[i] # q[j]
                      /\ \A i, j \in 1..n :
                            i < j => ~(results[q[j]].Time > results[q[i]].Time)}}

\* sort.Slice by Time.Before: any arrangement of the buckets in which no
\* bucket comes before one of an earlier time (the sort is not stable)
SortSlice(results) ==
    LET n == Len(results)
    IN  {[i \in 1..n |-> results[q[i]]] :
            q \in {q \in [1..n -> 1..n] :
                      /\ \A i, j \in 1..n : i # j => q[i] # q[j]
                      /\ \A i, j \in 1..n :
                            i < j => ~(results[q[j]].Time < results[q[i]].Time)}}

\* PrintAllEventsChronologically: the buckets in the order they are logged and
\* the errors logged after them
PrintAllEventsChronologically(order) ==
    LET out == PrintLoop(NoOutput, s.ExchangeAssetPairStatistics, order, 1)
    IN  \E sorted \in SortSlice(out.results) :
            printLog' = [results |-> sorted, errs |-> out.errs]

\* What the per-tuple calculator (stats.CalculateResults) may leave behind: the
\* fields it populates on the Timeline and whether it returns an error.
CalcOutcomes ==
    { [err |-> FALSE, MaxDrawdown |-> 0, MarketMovement |-> 0, StrategyMovement |-> 0,
       BuyOrders |-> 0, SellOrders |-> 0, ShowMissingDataWarning |-> FALSE],
      [err |-> FALSE, MaxDrawdown |-> 2, MarketMovement |-> 1, StrategyMovement |-> 2,
       BuyOrders |-> 1, SellOrders |-> 0, ShowMissingDataWarning |-> FALSE],
      [err |-> TRUE, MaxDrawdown |-> 1, MarketMovement |-> 2, StrategyMovement |-> 1,
       BuyOrders |-> 1, SellOrders |-> 1, ShowMissingDataWarning |-> TRUE] }

\* the Timeline after stats.CalculateResults(f) with outcome o
CalculateResults(stats, o) ==
    [stats EXCEPT !.MaxDrawdown = o.MaxDrawdown,
                  !.MarketMovement = o.MarketMovement,
                  !.StrategyMovement = o.StrategyMovement,
                  !.BuyOrders = o.BuyOrders,
                  !.SellOrders = o.SellOrders,
                  !.ShowMissingDataWarning = o.ShowMissingDataWarning]

\* ActiveEvent with an order event taken before the market-data event
ActiveEvent_OrderBeforeData(last) ==
    IF last.FillEvent # NilEvent THEN last.FillEvent
    ELSE IF last.SignalEvent # NilEvent THEN last.SignalEvent
    ELSE IF last.OrderEvent # NilEvent THEN last.OrderEvent
    ELSE last.DataEvent

\* the event CalculateAllResults asks the funding source about
ActiveEvent(last) ==
    IF last.FillEvent # NilEvent THEN last.FillEvent
    ELSE IF last.SignalEvent # NilEvent THEN last.SignalEvent
    ELSE last.DataEvent

\* the copy of *stats appended to s.AllStats: the struct's fields by value, the
\* Events slice by reference (its backing array is the Timeline's)
StatsCopy(stats, t) ==
    [stats EXCEPT !.Events = [backing |-> t, len |-> Len(stats.Events)]]

\* CalculateAllResults' loop body after stats.CalculateResults: the Timeline's
\* holdings and compliance fields, s.AllStats, finalResults and the totals
PopulateTuple(acc, t, stats) ==
    LET last == stats.Events[Len(stats.Events)]
        stats2 == [stats EXCEPT !.FinalHoldings = last.Holdings,
                                !.InitialHoldings = stats.Events[1].Holdings,
                                !.FinalOrders = last.Transactions]
        s2 == [acc.s EXCEPT
                  !.ExchangeAssetPairStatistics = Store(@, t[1], t[2], t[3], stats2),
                  !.AllStats = Append(@, StatsCopy(stats2, t)),
                  !.TotalBuyOrders = @ + stats2.BuyOrders,
                  !.TotalSellOrders = @ + stats2.SellOrders,
                  !.WasAnyDataMissing = @ \/ stats2.ShowMissingDataWarning]
    IN  [acc EXCEPT
            !.s = s2,
            !.finalResults = Append(@,
                [Exchange |-> t[1], Asset |-> t[2], Pair |-> t[3],
                 MaxDrawdown |-> stats2.MaxDrawdown,
                 MarketMovement |-> stats2.MarketMovement,
                 StrategyMovement |-> stats2.StrategyMovement])]

\* ProcessTuple with a tuple whose calculation failed skipped (continue)
ProcessTuple_SkipOnError(acc, t, stats, o) ==
    IF o.err
    THEN [acc EXCEPT !.errLog = @ \cup {t}]
    ELSE PopulateTuple(acc, t, CalculateResults(stats, o))

\* CalculateAllResults' loop body once the funding lookup succeeded: the
\* calculator runs with outcome o, its error is logged, the tuple is populated
ProcessTuple(acc, t, stats, o) ==
    PopulateTuple([acc EXCEPT !.errLog = IF o.err THEN @ \cup {t} ELSE @],
                  t, CalculateResults(stats, o))

\* The loop of CalculateAllResults from its i-th tuple on. order is the map
\* iteration order, failAt the lookup at which funds.GetFundingForEvent fails
\* (0: none), out the calculator's outcome per tuple.
RECURSIVE CalcLoop(_, _, _, _, _)
CalcLoop(acc, order, i, failAt, out) ==
    IF i > Len(order) THEN acc
    ELSE
    LET t == order[i]
        stats == Lookup(acc.s.ExchangeAssetPairStatistics, t[1], t[2], t[3])
        last == stats.Events[Len(stats.Events)]
        acc1 == [acc EXCEPT !.currCount = @ + 1,
                            !.startDate = stats.Events[1].DataEvent.Time,
                            !.endDate = last.DataEvent.Time,
                            !.fundLog = Append(@, ActiveEvent(last))]
    IN  IF i = failAt
        THEN [acc1 EXCEPT !.err = errFunding]
        ELSE CalcLoop(ProcessTuple(acc1, t, stats, out[t]), order, i + 1, failAt, out)

\* the funding.Report funds.GenerateReport(startDate, endDate) returns
GenerateReport(startDate, endDate) == [StartDate |-> startDate, EndDate |-> endDate]

\* CalculateAllResults after its loop: the funding report, the order total and,
\* for more than one tuple, the three best performers
Finish(acc) ==
    LET fr == acc.finalResults
        s3 == [acc.s EXCEPT !.Funding = GenerateReport(acc.startDate, acc.endDate),
                            !.TotalOrders = acc.s.TotalBuyOrders + acc.s.TotalSellOrders]
    IN  IF acc.currCount > 1
        THEN [s3 EXCEPT
                !.BiggestDrawdown =
                    HolderAt(fr, GetTheBiggestDrawdownAcrossCurrencies(fr)),
                !.BestMarketMovement = HolderAt(fr, GetBestMarketPerformer(fr)),
                !.BestStrategyResults = HolderAt(fr, GetBestStrategyPerformer(fr))]
        ELSE s3

\* the accumulator CalculateAllResults starts its loop with
CalcStart ==
    [s |-> s, finalResults |-> <<>>, startDate |-> ZeroTime, endDate |-> ZeroTime,
     currCount |-> 0, fundLog |-> <<>>, errLog |-> {}, err |-> NoError]

\* CalculateAllResults with a failed funding lookup leaving the loop (break)
\* instead of the function
CalculateAllResults_BreakOnError(printOrder, order, failAt, out) ==
    LET acc == CalcLoop(CalcStart, order, 1, failAt, out)
    IN  /\ PrintAllEventsChronologically(printOrder)
        /\ fundLog' = acc.fundLog
        /\ errLog' = acc.errLog
        /\ s' = Finish(acc)
        /\ reportLog' = <<[StartDate |-> acc.startDate, EndDate |-> acc.endDate]>>
        /\ Return("CalculateAllResults", acc.err)

\* printOrder and order are the orders in which the audit merge and the
\* results loop range over the map
CalculateAllResults(printOrder, order, failAt, out) ==
    LET acc == CalcLoop(CalcStart, order, 1, failAt, out)
    IN  /\ PrintAllEventsChronologically(printOrder)
        /\ fundLog' = acc.fundLog
        /\ errLog' = acc.errLog
        /\ IF acc.err # NoError
           THEN /\ s' = acc.s
                /\ reportLog' = <<>>
                /\ Return("CalculateAllResults", acc.err)
           ELSE /\ s' = Finish(acc)
                /\ reportLog' = <<[StartDate |-> acc.startDate, EndDate |-> acc.endDate]>>
                /\ Return("CalculateAllResults", NoError)

----------------------------------------------------------------------------

\* the selectors not yet called on results
NoSelection(results) ==
    [results |-> results, called |-> FALSE, market |-> 0, strategy |-> 0, drawdown |-> 0]

Init ==
    /\ s = ZeroStatistic
    /\ ret = [op |-> "new", err |-> NoError]
    /\ fundLog = <<>>
    /\ reportLog = <<>>
    /\ errLog = {}
    /\ printLog = NoOutput
    /\ calls = 0
    /\ best = NoSelection(<<>>)
    /\ size = [fn |-> "none"]

Call(A) ==
    /\ calls < MaxCalls
    /\ calls' = calls + 1
    /\ A
    /\ UNCHANGED <<best, size>>

DoReset == Call(Reset)

RecordEvent == \E ev \in DataEvents \cup {NilEvent} : Call(SetupEventForTime(ev))

ApplyAtOffset == \E ev \in EventHandlers \cup {NilEvent} : Call(SetEventForOffset(ev))

AttachHoldings == \E h \in Holdings : Call(AddHoldingsForTime(h))

AttachCompliance ==
    \E c \in Snapshots, e \in ComplianceEvents \cup {NilEvent} :
        Call(AddComplianceSnapshotForTime(c, e))

\* the funding source and the calculator answer as they please, the map is
\* ranged over in any order
Aggregate ==
    \E printOrder, order \in IterationOrders(s.ExchangeAssetPairStatistics) :
        \E failAt \in 0..Len(order) :
            \E out \in [TuplesOf(s.ExchangeAssetPairStatistics) -> CalcOutcomes] :
                Call(CalculateAllResults(printOrder, order, failAt, out))

Next ==
    \/ DoReset
    \/ RecordEvent
    \/ ApplyAtOffset
    \/ AttachHoldings
    \/ AttachCompliance
    \/ Aggregate

\* The backtest run: the event loop's calls on the Statistic.
Spec == Init /\ [][Next]_vars

----------------------------------------------------------------------------
\* The best-performer selectors on their own, over every results list of
\* bounded length.

\* the metric values of a FinalResultsHolder (decimals; only their order and
\* their being zero are read)
DrawdownValues == {0, 1, 2}
MovementValues == {-1, 0, 1, 2}
StrategyValues == {-1, 0, 1}

\* the FinalResultsHolder lists CalculateAllResults may build
ResultLists ==
    UNION {[1..n -> [Exchange : {"e1"}, Asset : {"spot"}, Pair : {"BTC-USD"},
                     MaxDrawdown : DrawdownValues, MarketMovement : MovementValues,
                     StrategyMovement : StrategyValues]] : n \in 0..MaxResults}

\* a results list is handed over
InitBest ==
    /\ s = ZeroStatistic
    /\ ret = [op |-> "new", err |-> NoError]
    /\ fundLog = <<>>
    /\ reportLog = <<>>
    /\ errLog = {}
    /\ printLog = NoOutput
    /\ calls = 0
    /\ best \in {NoSelection(results) : results \in ResultLists}
    /\ size = [fn |-> "none"]

\* the three selectors are called on it, as CalculateAllResults calls them
SelectBest ==
    /\ ~best.called
    /\ best' = [results |-> best.results,
                called |-> TRUE,
                market |-> GetBestMarketPerformer(best.results),
                strategy |-> GetBestStrategyPerformer(best.results),
                drawdown |-> GetTheBiggestDrawdownAcrossCurrencies(best.results)]
    /\ UNCHANGED <<storeVars, size>>

NextBest == SelectBest

SpecBest == InitBest /\ [][NextBest]_vars

\* C7 as stated: a zero-metric entry followed by a positive-metric entry yields
\* the positive-metric entry (the second) as best, for each of the selectors.
C7_PositiveBeatsZero ==
    (best.called /\ Len(best.results) = 2) =>
        /\ (best.results[1].MarketMovement = 0 /\ best.results[2].MarketMovement > 0)
              => best.market = 2
        /\ (best.results[1].StrategyMovement = 0 /\ best.results[2].StrategyMovement > 0)
              => best.strategy = 2
        /\ (best.results[1].MaxDrawdown = 0 /\ best.results[2].MaxDrawdown > 0)
              => best.drawdown = 2

\* C8 as stated: a non-empty list whose entries all have a zero metric yields
\* its last entry as best, for each of the selectors.
C8_AllZeroYieldsLast ==
    LET r == best.results
    IN  (best.called /\ Len(r) >= 1) =>
        /\ (\A i \in 1..Len(r) : r[i].MarketMovement = 0) => best.market = Len(r)
        /\ (\A i \in 1..Len(r) : r[i].StrategyMovement = 0) => best.strategy = Len(r)
        /\ (\A i \in 1..Len(r) : r[i].MaxDrawdown = 0) => best.drawdown = Len(r)

----------------------------------------------------------------------------
\* Decimals (shopspring/decimal), as exact fractions <<numerator, denominator>>
\* in lowest terms with a positive denominator.

Abs(x) == IF x < 0 THEN -x ELSE x

RECURSIVE GCD(_, _)
GCD(a, b) == IF b = 0 THEN a ELSE GCD(b, a % b)

\* n/d in lowest terms, d > 0
Dec(n, d) == LET g == GCD(Abs(n), d) IN <<n \div g, d \div g>>

DecZero == Dec(0, 1)
DecOne == Dec(1, 1)

\* the least common denominator of x and y
CommonDen(x, y) == (x[2] \div GCD(x[2], y[2])) * y[2]

DecAdd(x, y) ==
    LET l == CommonDen(x, y)
    IN  Dec(x[1] * (l \div x[2]) + y[1] * (l \div y[2]), l)

DecSub(x, y) == DecAdd(x, <<-y[1], y[2]>>)

DecMul(x, y) ==
    LET g1 == GCD(Abs(x[1]), y[2])
        g2 == GCD(Abs(y[1]), x[2])
    IN  Dec((x[1] \div g1) * (y[1] \div g2), (x[2] \div g2) * (y[2] \div g1))

\* x / y for y > 0
DecDiv(x, y) == DecMul(x, <<y[2], y[1]>>)

DecLess(x, y) ==
    LET l == CommonDen(x, y)
    IN  x[1] * (l \div x[2]) < y[1] * (l \div y[2])

DecLessEq(x, y) == ~DecLess(y, x)

DecMin(x, y) == IF DecLess(y, x) THEN y ELSE x

----------------------------------------------------------------------------
\* The sizing engine

errNoFunds == "errNoFunds"
errLessThanMinimum == "errLessThanMinimum"
errCannotAllocate == "errCannotAllocate"
ErrNilArguments == "common.ErrNilArguments"

\* config.MinMax
MinMax(min, max, total) == [MinimumSize |-> min, MaximumSize |-> max, MaximumTotal |-> total]

\* the fee-deflated ceiling budget * (1 - feeRate) / price
Ceiling(budget, feeRate, price) == DecDiv(DecMul(budget, DecSub(DecOne, feeRate)), price)

\* the candidate quantity: the least of the directional limit, the funds ceiling
\* and, for a nonzero MaximumTotal, the exposure ceiling
Candidate(price, availableFunds, feeRate, limit, c) ==
    LET byFunds == DecMin(limit, Ceiling(availableFunds, feeRate, price))
    IN  IF c.MaximumTotal # DecZero
        THEN DecMin(byFunds, Ceiling(c.MaximumTotal, feeRate, price))
        ELSE byFunds

\* ClampMax with a zero MaximumSize clamping like any other
ClampMax_ZeroClamps(q, c) ==
    IF DecLess(c.MaximumSize, q) THEN c.MaximumSize ELSE q

\* the upper clamp, skipped for a zero MaximumSize
ClampMax(q, c) ==
    IF c.MaximumSize # DecZero /\ DecLess(c.MaximumSize, q) THEN c.MaximumSize ELSE q

SizeError(err) == [err |-> err, amount |-> DecZero]

\* CalculateSize without the upper clamp
CalculateSize_NoMaxClamp(price, availableFunds, feeRate, limit, c) ==
    IF DecLessEq(availableFunds, DecZero)
    THEN SizeError(errNoFunds)
    ELSE LET q == Candidate(price, availableFunds, feeRate, limit, c)
         IN  IF c.MinimumSize # DecZero /\ DecLess(q, c.MinimumSize)
             THEN SizeError(errLessThanMinimum)
             ELSE [err |-> NoError, amount |-> q]

\* CalculateSize with a quantity below MinimumSize raised to it
CalculateSize_ClampUp(price, availableFunds, feeRate, limit, c) ==
    IF DecLessEq(availableFunds, DecZero)
    THEN SizeError(errNoFunds)
    ELSE LET q == ClampMax(Candidate(price, availableFunds, feeRate, limit, c), c)
         IN  [err |-> NoError,
              amount |-> IF DecLess(q, c.MinimumSize) THEN c.MinimumSize ELSE q]

\* CalculateSize with the minimum checked before the funds
CalculateSize_MinimumFirst(price, availableFunds, feeRate, limit, c) ==
    LET q == ClampMax(Candidate(price, availableFunds, feeRate, limit, c), c)
    IN  IF c.MinimumSize # DecZero /\ DecLess(q, c.MinimumSize)
        THEN SizeError(errLessThanMinimum)
        ELSE IF DecLessEq(availableFunds, DecZero)
        THEN SizeError(errNoFunds)
        ELSE [err |-> NoError, amount |-> q]

\* The algorithm calculateBuySize and calculateSellSize share. The clamp of
\* its step 5 only lowers the quantity: a candidate below a nonzero
\* MinimumSize fails (TestSizingUnderMinSize, TestCalculateSellSize).
CalculateSize(price, availableFunds, feeRate, limit, c) ==
    IF DecLessEq(availableFunds, DecZero)
    THEN SizeError(errNoFunds)
    ELSE LET q == ClampMax(Candidate(price, availableFunds, feeRate, limit, c), c)
         IN  IF c.MinimumSize # DecZero /\ DecLess(q, c.MinimumSize)
             THEN SizeError(errLessThanMinimum)
             ELSE [err |-> NoError, amount |-> q]

calculateBuySize(price, availableFunds, feeRate, buyLimit, c) ==
    CalculateSize(price, availableFunds, feeRate, buyLimit, c)

calculateSellSize(price, availableFunds, feeRate, sellLimit, c) ==
    CalculateSize(price, availableFunds, feeRate, sellLimit, c)

\* a nil order.Event
NilOrder == [kind |-> "nil"]

\* SizeOrder with the direction examined before the funds
SizeOrder_DirectionFirst(sizer, o, availableFunds, cs) ==
    IF o = NilOrder THEN SizeError(ErrNilArguments)
    ELSE IF o.Direction = "BUY" /\ availableFunds # DecZero
    THEN calculateBuySize(o.Price, availableFunds, cs.feeRate,
                          DecDiv(availableFunds, o.Price), sizer.BuySide)
    ELSE IF o.Direction = "SELL" /\ availableFunds # DecZero
    THEN calculateSellSize(o.Price, availableFunds, cs.feeRate,
                           DecDiv(availableFunds, o.Price), sizer.SellSide)
    ELSE IF o.Direction \notin {"BUY", "SELL"} THEN SizeError(errCannotAllocate)
    ELSE SizeError(errNoFunds)

\* SizeOrder: the error and the quantity of the sized order
SizeOrder(sizer, o, availableFunds, cs) ==
    IF o = NilOrder THEN SizeError(ErrNilArguments)
    ELSE IF availableFunds = DecZero THEN SizeError(errNoFunds)
    ELSE IF o.Direction = "BUY"
    THEN calculateBuySize(o.Price, availableFunds, cs.feeRate,
                          DecDiv(availableFunds, o.Price), sizer.BuySide)
    ELSE IF o.Direction = "SELL"
    THEN calculateSellSize(o.Price, availableFunds, cs.feeRate,
                           DecDiv(availableFunds, o.Price), sizer.SellSide)
    ELSE SizeError(errCannotAllocate)

\* The arguments of the sizing calls: those of size_test.go and their neighbours.
SizePrices == {Dec(10, 1), Dec(12, 1), Dec(1338, 1)}
SizeFunds == {Dec(-1, 1), Dec(0, 1), Dec(11, 1), Dec(1337, 1), Dec(1338, 1),
              Dec(1339, 1), Dec(13380, 1)}
SizeFeeRates == {Dec(0, 1), Dec(2, 100)}
SizeLimits == {Dec(1, 2), Dec(1, 1), Dec(2, 1)}
SizeConstraints ==
    { MinMax(Dec(0, 1), Dec(1, 1), Dec(10, 1)),
      MinMax(Dec(0, 1), Dec(1, 2), Dec(1337, 1)),
      MinMax(Dec(1, 1), Dec(2, 1), Dec(1337, 1)),
      MinMax(Dec(1, 1), Dec(0, 1), Dec(1437, 1)),
      MinMax(Dec(1, 1), Dec(1, 1), Dec(0, 1)),
      MinMax(Dec(0, 1), Dec(0, 1), Dec(0, 1)) }

\* the orders, funds, settings and sizers SizeOrder is called with
SizeOrders ==
    {NilOrder, [Direction |-> "", Price |-> DecZero]}
      \cup [Direction : {"BUY", "SELL", ""}, Price : {Dec(1, 1), Dec(10, 1)}]
OrderFunds == {Dec(0, 1), Dec(11, 1), Dec(1337, 1)}
ExchangeSettings == [feeRate : SizeFeeRates]
Sizers ==
    { [BuySide |-> MinMax(Dec(0, 1), Dec(0, 1), Dec(0, 1)),
       SellSide |-> MinMax(Dec(0, 1), Dec(0, 1), Dec(0, 1))],
      [BuySide |-> MinMax(Dec(1, 1), Dec(1, 1), Dec(0, 1)),
       SellSide |-> MinMax(Dec(0, 1), Dec(0, 1), Dec(0, 1))],
      [BuySide |-> MinMax(Dec(1, 1), Dec(1, 1), Dec(0, 1)),
       SellSide |-> MinMax(Dec(1, 1), Dec(1, 1), Dec(0, 1))],
      [BuySide |-> MinMax(Dec(0, 1), Dec(1, 1), Dec(10, 1)),
       SellSide |-> MinMax(Dec(1, 1), Dec(2, 1), Dec(1337, 1))] }

\* a sizing call about to be made
InitSize ==
    /\ s = ZeroStatistic
    /\ ret = [op |-> "new", err |-> NoError]
    /\ fundLog = <<>>
    /\ reportLog = <<>>
    /\ errLog = {}
    /\ printLog = NoOutput
    /\ calls = 0
    /\ best = NoSelection(<<>>)
    /\ \/ size \in [fn : {"none"}, kind : {"size"}, price : SizePrices,
                    availableFunds : SizeFunds, feeRate : SizeFeeRates,
                    limit : SizeLimits, c : SizeConstraints]
       \/ size \in [fn : {"none"}, kind : {"order"}, sizer : Sizers, o : SizeOrders,
                    availableFunds : OrderFunds, cs : ExchangeSettings]

CallCalculateBuySize ==
    /\ size.fn = "none" /\ size.kind = "size"
    /\ size' = [fn |-> "calculateBuySize", args |-> size,
                res |-> calculateBuySize(size.price, size.availableFunds, size.feeRate,
                                         size.limit, size.c)]
    /\ UNCHANGED <<storeVars, best>>

CallCalculateSellSize ==
    /\ size.fn = "none" /\ size.kind = "size"
    /\ size' = [fn |-> "calculateSellSize", args |-> size,
                res |-> calculateSellSize(size.price, size.availableFunds, size.feeRate,
                                          size.limit, size.c)]
    /\ UNCHANGED <<storeVars, best>>

CallSizeOrder ==
    /\ size.fn = "none" /\ size.kind = "order"
    /\ size' = [fn |-> "SizeOrder", args |-> size,
                res |-> SizeOrder(size.sizer, size.o, size.availableFunds, size.cs)]
    /\ UNCHANGED <<storeVars, best>>

NextSize ==
    \/ CallCalculateBuySize
    \/ CallCalculateSellSize
    \/ CallSizeOrder

SpecSize == InitSize /\ [][NextSize]_vars

\* a calculateBuySize or calculateSellSize call has returned
SizeCalled == size.fn \in {"calculateBuySize", "calculateSellSize"}

\* the exposure ceiling of the call (MaximumTotal nonzero)
ExposureCeiling(a) == Ceiling(a.c.MaximumTotal, a.feeRate, a.price)

\* price * quantity + feeRate * MaximumTotal
Cost(a, q) == DecAdd(DecMul(a.price, q), DecMul(a.feeRate, a.c.MaximumTotal))

\* C3: a quantity returned without error never exceeds a nonzero MaximumSize,
\* never exceeds the directional limit and, for a nonzero MaximumTotal, costs
\* price*quantity + feeRate*MaximumTotal at most MaximumTotal, and exactly
\* MaximumTotal when the exposure ceiling is the least of the bounds.
C3_SizeWithinBounds ==
    (SizeCalled /\ size.res.err = NoError) =>
        LET a == size.args
            q == size.res.amount
        IN  /\ a.c.MaximumSize # DecZero => DecLessEq(q, a.c.MaximumSize)
            /\ DecLessEq(q, a.limit)
            /\ a.c.MaximumTotal # DecZero =>
                  /\ DecLessEq(Cost(a, q), a.c.MaximumTotal)
                  /\ ( /\ DecLessEq(ExposureCeiling(a), a.limit)
                       /\ DecLessEq(ExposureCeiling(a),
                                    Ceiling(a.availableFunds, a.feeRate, a.price))
                       /\ (a.c.MaximumSize = DecZero
                              \/ DecLessEq(ExposureCeiling(a), a.c.MaximumSize)) )
                        => Cost(a, q) = a.c.MaximumTotal

\* C3 witness: Scenario A (TestSizingAccuracy) returns 0.98
C3_Witness ==
    /\ size.fn = "calculateBuySize"
    /\ size.args.c = MinMax(Dec(0, 1), Dec(1, 1), Dec(10, 1))
    /\ size.args.price = Dec(10, 1)
    /\ size.args.availableFunds = Dec(11, 1)
    /\ size.args.feeRate = Dec(2, 100)
    /\ size.args.limit = Dec(1, 1)
    /\ size.res = [err |-> NoError, amount |-> Dec(98, 100)]

\* the largest allocatable quantity of the call: the least of the directional
\* limit, the funds ceiling and, for a nonzero MaximumTotal, the exposure ceiling
LargestAllocatable(a) ==
    LET f == Ceiling(a.availableFunds, a.feeRate, a.price)
        lf == IF DecLess(f, a.limit) THEN f ELSE a.limit
    IN  IF a.c.MaximumTotal # DecZero /\ DecLess(ExposureCeiling(a), lf)
        THEN ExposureCeiling(a)
        ELSE lf

\* C4: with funds, a call whose largest allocatable quantity is below a nonzero
\* MinimumSize fails with errLessThanMinimum.
C4_BelowMinimumFails ==
    (SizeCalled /\ DecLess(DecZero, size.args.availableFunds)
       /\ size.args.c.MinimumSize # DecZero
       /\ DecLess(LargestAllocatable(size.args), size.args.c.MinimumSize))
    => size.res.err = errLessThanMinimum

\* C4 witness: Scenario C (TestSizingUnderMinSize) fails with errLessThanMinimum
C4_Witness ==
    /\ size.fn = "calculateBuySize"
    /\ size.args.c = MinMax(Dec(1, 1), Dec(2, 1), Dec(1337, 1))
    /\ size.args.price = Dec(1338, 1)
    /\ size.args.availableFunds = Dec(1338, 1)
    /\ size.args.feeRate = Dec(2, 100)
    /\ size.args.limit = Dec(1, 1)
    /\ size.res.err = errLessThanMinimum

\* C5: calculateBuySize and calculateSellSize fail with errNoFunds whenever
\* availableFunds is zero or negative, whatever the other arguments (also
\* those for which the quantity would be below the minimum).
C5_NoFundsFirst ==
    (SizeCalled /\ DecLessEq(size.args.availableFunds, DecZero))
    => size.res.err = errNoFunds

\* C5 witness: a sell with negative funds and a nonzero minimum no quantity
\* reaches fails with errNoFunds
C5_Witness ==
    /\ size.fn = "calculateSellSize"
    /\ DecLess(size.args.availableFunds, DecZero)
    /\ size.args.c.MinimumSize # DecZero
    /\ size.res.err = errNoFunds

\* C6: SizeOrder fails with ErrNilArguments for a nil order; otherwise with
\* errNoFunds for zero funds, whatever the direction; otherwise with
\* errCannotAllocate for a direction that is neither buy nor sell; and a buy
\* (sell) order with funds gets what calculateBuySize (calculateSellSize)
\* returns for the buy-side (sell-side) constraints.
C6_SizeOrderChecks ==
    size.fn = "SizeOrder" =>
        LET a == size.args
            limit == DecDiv(a.availableFunds, a.o.Price)
        IN  IF a.o = NilOrder THEN size.res.err = ErrNilArguments
            ELSE IF a.availableFunds = DecZero THEN size.res.err = errNoFunds
            ELSE IF a.o.Direction = "BUY"
            THEN size.res = calculateBuySize(a.o.Price, a.availableFunds, a.cs.feeRate,
                                             limit, a.sizer.BuySide)
            ELSE IF a.o.Direction = "SELL"
            THEN size.res = calculateSellSize(a.o.Price, a.availableFunds, a.cs.feeRate,
                                              limit, a.sizer.SellSide)
            ELSE size.res.err = errCannotAllocate

\* C6 witness: a buy order without funds fails with errNoFunds
C6_Witness ==
    /\ size.fn = "SizeOrder"
    /\ size.args.o # NilOrder
    /\ size.args.o.Direction = "BUY"
    /\ size.args.availableFunds = DecZero
    /\ size.res.err = errNoFunds

----------------------------------------------------------------------------
\* Properties of the Timeline store.

\* the records of the Timeline of ev's tuple in Statistic st (none: no Timeline)
TimelineOf(st, ex, a, p) ==
    LET stat == Lookup(st.ExchangeAssetPairStatistics, ex, a, p)
    IN  IF stat = NilStat THEN <<>> ELSE stat.Events

\* a record of ev's Timeline holds ev as its market-data event
AlreadyRecorded(ev) ==
    LET events == TimelineOf(s, ev.Exchange, ev.Asset, ev.Pair)
    IN  \E i \in 1..Len(events) : events[i].DataEvent = ev

\* C1: SetupEventForTime with an event whose exchange, asset, pair, time and
\* offset equal those of the market-data event of a record of the store returns
\* ErrAlreadyProcessed and leaves the tuple's Timeline (its length and its
\* records) as it was.
C1_DuplicateRejected ==
    [][\A ev \in DataEvents :
          (AlreadyRecorded(ev) /\ Call(SetupEventForTime(ev))) =>
              /\ ret'.err = ErrAlreadyProcessed
              /\ TimelineOf(s', ev.Exchange, ev.Asset, ev.Pair)
                    = TimelineOf(s, ev.Exchange, ev.Asset, ev.Pair)]_vars

\* C1 witness: a duplicate was rejected while its Timeline holds records
C1_Witness ==
    /\ ret = [op |-> "SetupEventForTime", err |-> ErrAlreadyProcessed]
    /\ \E t \in TuplesOf(s.ExchangeAssetPairStatistics) :
          Len(TimelineOf(s, t[1], t[2], t[3])) >= 1

\* C2 as stated: no Timeline holds two records with the same offset.
C2_OneRecordPerOffset ==
    \A t \in TuplesOf(s.ExchangeAssetPairStatistics) :
        LET events == TimelineOf(s, t[1], t[2], t[3])
        IN  \A i, j \in 1..Len(events) :
                i # j => events[i].DataEvent.Offset # events[j].DataEvent.Offset

\* C2 amended: whatever the call, a Timeline grows by at most one record, its
\* earlier records keep their places, and the new record's market-data event
\* differs in offset or in time from that of every record already there.
C2_OneRecordPerOffsetAndTime ==
    [][\A t \in Exchanges \X Assets \X Pairs :
          LET old == TimelineOf(s, t[1], t[2], t[3])
              new == TimelineOf(s', t[1], t[2], t[3])
          IN  Len(new) > Len(old) =>
                  /\ Len(new) = Len(old) + 1
                  /\ \A i \in 1..Len(old) :
                        /\ new[i] = old[i]
                        /\ ~ /\ old[i].DataEvent.Offset = new[Len(new)].DataEvent.Offset
                             /\ old[i].DataEvent.Time = new[Len(new)].DataEvent.Time]_vars

\* C2 witness: two recorded events share an offset, differ in time, and both
\* have a record
C2_Witness ==
    \E t \in TuplesOf(s.ExchangeAssetPairStatistics) :
        LET events == TimelineOf(s, t[1], t[2], t[3])
        IN  /\ ret.op = "SetupEventForTime"
            /\ Len(events) = 2
            /\ events[1].DataEvent.Offset = events[2].DataEvent.Offset
            /\ events[1].DataEvent.Time # events[2].DataEvent.Time

----------------------------------------------------------------------------
\* Properties of the results aggregator.

\* the tuple an event belongs to
TupleOfEvent(ev) == <<ev.Exchange, ev.Asset, ev.Pair>>

\* the tuples the last CalculateAllResults got past the funding lookup of
ProcessedTuples(log, n) == {TupleOfEvent(log[i]) : i \in 1..n}

RECURSIVE SumField(_, _, _, _)
\* the sum of field f over the entries from..to of list
SumField(list, f, from, to) ==
    IF from > to THEN 0 ELSE list[from][f] + SumField(list, f, from + 1, to)

\* C9: when a funding lookup fails, CalculateAllResults returns that error at
\* once: the failed lookup is its last, only the tuples looked up before it
\* were processed, no funding report is generated and the biggest drawdown,
\* the best market movement and the best strategy results are not computed.
C9_FundingErrorAborts ==
    [][(ret'.op = "CalculateAllResults" /\ calls' = calls + 1 /\ ret'.err = errFunding) =>
          LET k == Len(fundLog')
              T == TuplesOf(s.ExchangeAssetPairStatistics)
          IN  /\ k >= 1
              /\ k <= Cardinality(T)
              /\ reportLog' = <<>>
              /\ s'.Funding = s.Funding
              /\ s'.TotalOrders = s.TotalOrders
              /\ s'.BiggestDrawdown = s.BiggestDrawdown
              /\ s'.BestMarketMovement = s.BestMarketMovement
              /\ s'.BestStrategyResults = s.BestStrategyResults
              /\ Len(s'.AllStats) = Len(s.AllStats) + (k - 1)
              /\ Cardinality(ProcessedTuples(fundLog', k)) = k
              /\ \A t \in T \ ProcessedTuples(fundLog', k - 1) :
                    Lookup(s'.ExchangeAssetPairStatistics, t[1], t[2], t[3])
                      = Lookup(s.ExchangeAssetPairStatistics, t[1], t[2], t[3])]_vars

\* C9 witness: the lookup of the first of two tuples failed
C9_Witness ==
    /\ ret = [op |-> "CalculateAllResults", err |-> errFunding]
    /\ Cardinality(TuplesOf(s.ExchangeAssetPairStatistics)) = 2
    /\ Len(fundLog) = 1
    /\ s.AllStats = <<>>
    /\ s.Funding = NilReport

\* C10: a tuple whose calculation failed still has its initial holdings, final
\* holdings and final compliance snapshot populated, is appended to s.AllStats,
\* adds its buy and sell counts to the totals and propagates its missing-data
\* flag; the call fails only if a funding lookup fails, and without one every
\* tuple is processed and the call returns no error.
C10_CalcErrorNotFatal ==
    [][(ret'.op = "CalculateAllResults" /\ calls' = calls + 1 /\ errLog' # {}) =>
          LET T == TuplesOf(s.ExchangeAssetPairStatistics)
              n0 == Len(s.AllStats)
              n1 == Len(s'.AllStats)
          IN  /\ \A t \in errLog' :
                    LET stat == Lookup(s'.ExchangeAssetPairStatistics, t[1], t[2], t[3])
                        last == stat.Events[Len(stat.Events)]
                    IN  /\ stat.InitialHoldings = stat.Events[1].Holdings
                        /\ stat.FinalHoldings = last.Holdings
                        /\ stat.FinalOrders = last.Transactions
                        /\ \E i \in (n0 + 1)..n1 :
                              /\ s'.AllStats[i] = StatsCopy(stat, t)
                        /\ stat.ShowMissingDataWarning => s'.WasAnyDataMissing
              /\ s'.TotalBuyOrders
                    = s.TotalBuyOrders + SumField(s'.AllStats, "BuyOrders", n0 + 1, n1)
              /\ s'.TotalSellOrders
                    = s.TotalSellOrders + SumField(s'.AllStats, "SellOrders", n0 + 1, n1)
              /\ ret'.err \in {NoError, errFunding}
              /\ ret'.err = NoError =>
                    /\ n1 = n0 + Cardinality(T)
                    /\ ProcessedTuples(fundLog', Len(fundLog')) = T
                    /\ s'.TotalOrders = s'.TotalBuyOrders + s'.TotalSellOrders]_vars

\* C10 witness: the calculation of the first of two tuples failed, the second
\* tuple was processed and the call returned no error
C10_Witness ==
    /\ ret = [op |-> "CalculateAllResults", err |-> NoError]
    /\ Cardinality(errLog) = 1
    /\ Len(fundLog) = 2
    /\ TupleOfEvent(fundLog[1]) \in errLog
    /\ Len(s.AllStats) = 2
    /\ s.TotalBuyOrders >= 1
    /\ s.WasAnyDataMissing

\* the time of the first and of the last record of tuple t's Timeline
FirstRecordTime(st, t) == TimelineOf(st, t[1], t[2], t[3])[1].DataEvent.Time
LastRecordTime(st, t) ==
    LET events == TimelineOf(st, t[1], t[2], t[3])
    IN  events[Len(events)].DataEvent.Time

\* C11 as stated: after CalculateAllResults has processed several tuples, the
\* funding report was requested for the span from the earliest first-record
\* time to the latest last-record time over all tuples.
C11_SpanCoversAllTuples ==
    LET T == TuplesOf(s.ExchangeAssetPairStatistics)
    IN  (ret = [op |-> "CalculateAllResults", err |-> NoError] /\ Cardinality(T) >= 2) =>
            /\ Len(reportLog) = 1
            /\ \A t \in T : /\ reportLog[1].StartDate <= FirstRecordTime(s, t)
                            /\ reportLog[1].EndDate >= LastRecordTime(s, t)
            /\ \E t \in T : reportLog[1].StartDate = FirstRecordTime(s, t)
            /\ \E t \in T : reportLog[1].EndDate = LastRecordTime(s, t)

----------------------------------------------------------------------------
\* Properties of the enrichment calls.

\* the tuple has a Timeline
HasTimeline(st, ex, a, p) == Lookup(st.ExchangeAssetPairStatistics, ex, a, p) # NilStat

\* record i is the most recent record of events whose market-data event has the offset
MostRecentWithOffset(events, i, offset) ==
    /\ i \in 1..Len(events)
    /\ events[i].DataEvent.Offset = offset
    /\ \A j \in (i + 1)..Len(events) : events[j].DataEvent.Offset # offset

\* a record of events has the offset
SomeWithOffset(events, offset) ==
    \E i \in 1..Len(events) : events[i].DataEvent.Offset = offset

\* the field of a record a signal, order or fill event goes to
FieldOf(ev) ==
    CASE ev.kind = "signal" -> "SignalEvent"
      [] ev.kind = "order" -> "OrderEvent"
      [] ev.kind = "fill" -> "FillEvent"

\* Statistic st with field f of record i of the tuple's Timeline set to v
WithField(st, ex, a, p, i, f, v) ==
    [st EXCEPT !.ExchangeAssetPairStatistics[ex][a][p].Events[i][f] = v]

\* C12: SetEventForOffset with a signal, order or fill event whose offset is
\* that of a record of its tuple returns no error and sets the signal, order or
\* fill field of the most recent record with that offset; every other field of
\* the record, every other record, every other Timeline and the rest of the
\* store stay as they were, and so does the Timeline's length.
C12_ApplySetsOneField ==
    [][\A ev \in SignalEvents \cup OrderEvents \cup FillEvents :
          LET events == TimelineOf(s, ev.Exchange, ev.Asset, ev.Pair)
          IN  \A i \in 1..Len(events) :
                (MostRecentWithOffset(events, i, ev.Offset) /\ Call(SetEventForOffset(ev))) =>
                    /\ ret'.err = NoError
                    /\ s' = WithField(s, ev.Exchange, ev.Asset, ev.Pair, i, FieldOf(ev), ev)
                    /\ Len(TimelineOf(s', ev.Exchange, ev.Asset, ev.Pair)) = Len(events)]_vars

\* C12 witness: of two records with the same offset the later one got the signal
C12_Witness ==
    /\ ret = [op |-> "SetEventForOffset", err |-> NoError]
    /\ \E t \in TuplesOf(s.ExchangeAssetPairStatistics) :
          LET events == TimelineOf(s, t[1], t[2], t[3])
          IN  /\ Len(events) = 2
              /\ events[1].DataEvent.Offset = events[2].DataEvent.Offset
              /\ events[2].SignalEvent \in SignalEvents
              /\ events[2] = [NewEventStore(events[2].DataEvent)
                                 EXCEPT !.SignalEvent = events[2].SignalEvent]
              /\ events[1] = NewEventStore(events[1].DataEvent)

\* C13: on a store whose map was never made (no SetupEventForTime with an
\* event since construction or Reset) SetEventForOffset, AddHoldingsForTime and
\* AddComplianceSnapshotForTime fail with errExchangeAssetPairStatsUnset; with
\* the map made but no Timeline for the argument's tuple they fail with
\* errCurrencyStatisticsUnset; either way the store is as it was. The map is
\* unmade exactly after Reset and made exactly by SetupEventForTime with an event.
C13_UnsetStoreAndTuple ==
    [][/\ \A ev \in EventHandlers :
             (~HasTimeline(s, ev.Exchange, ev.Asset, ev.Pair) /\ Call(SetEventForOffset(ev))) =>
                 /\ ret'.err = IF s.mapIsNil THEN errExchangeAssetPairStatsUnset
                                ELSE errCurrencyStatisticsUnset
                 /\ s' = s
       /\ \A h \in Holdings :
             (~HasTimeline(s, h.Exchange, h.Asset, h.Pair) /\ Call(AddHoldingsForTime(h))) =>
                 /\ ret'.err = IF s.mapIsNil THEN errExchangeAssetPairStatsUnset
                                ELSE errCurrencyStatisticsUnset
                 /\ s' = s
       /\ \A c \in Snapshots, e \in ComplianceEvents :
             (~HasTimeline(s, e.Exchange, e.Asset, e.Pair)
                /\ Call(AddComplianceSnapshotForTime(c, e))) =>
                 /\ ret'.err = IF s.mapIsNil THEN errExchangeAssetPairStatsUnset
                                ELSE errCurrencyStatisticsUnset
                 /\ s' = s
       /\ s'.mapIsNil =
             IF ret'.op = "Reset" THEN TRUE
             ELSE IF ret'.op = "SetupEventForTime" /\ ret'.err # ErrNilEvent THEN FALSE
             ELSE s.mapIsNil
       /\ s.mapIsNil => TuplesOf(s.ExchangeAssetPairStatistics) = {}]_vars

\* C13 witness: a store with a Timeline for e1 only refused an event of e2
C13_Witness ==
    /\ ret.op \in {"SetEventForOffset", "AddHoldingsForTime", "AddComplianceSnapshotForTime"}
    /\ ret.err = errCurrencyStatisticsUnset
    /\ DOMAIN s.ExchangeAssetPairStatistics = {"e1"}
    /\ ~s.mapIsNil

\* C14: SetEventForOffset, AddHoldingsForTime and AddComplianceSnapshotForTime
\* called for a tuple that has a Timeline none of whose records has the
\* argument's offset return no error and leave the store as it was.
C14_NoMatchIgnored ==
    [][/\ \A ev \in EventHandlers :
             LET events == TimelineOf(s, ev.Exchange, ev.Asset, ev.Pair)
             IN  (HasTimeline(s, ev.Exchange, ev.Asset, ev.Pair)
                    /\ ~SomeWithOffset(events, ev.Offset)
                    /\ Call(SetEventForOffset(ev))) =>
                     (ret'.err = NoError /\ s' = s)
       /\ \A h \in Holdings :
             LET events == TimelineOf(s, h.Exchange, h.Asset, h.Pair)
             IN  (HasTimeline(s, h.Exchange, h.Asset, h.Pair)
                    /\ ~SomeWithOffset(events, h.Offset)
                    /\ Call(AddHoldingsForTime(h))) =>
                     (ret'.err = NoError /\ s' = s)
       /\ \A c \in Snapshots, e \in ComplianceEvents :
             LET events == TimelineOf(s, e.Exchange, e.Asset, e.Pair)
             IN  (HasTimeline(s, e.Exchange, e.Asset, e.Pair)
                    /\ ~SomeWithOffset(events, e.Offset)
                    /\ Call(AddComplianceSnapshotForTime(c, e))) =>
                     (ret'.err = NoError /\ s' = s)]_vars

\* C14 witness: an enrichment call returned no error on a store whose only
\* record is untouched
C14_Witness ==
    /\ ret.op \in {"SetEventForOffset", "AddHoldingsForTime", "AddComplianceSnapshotForTime"}
    /\ ret.err = NoError
    /\ calls = 2
    /\ \E t \in TuplesOf(s.ExchangeAssetPairStatistics) :
          LET events == TimelineOf(s, t[1], t[2], t[3])
          IN  /\ TuplesOf(s.ExchangeAssetPairStatistics) = {t}
              /\ Len(events) = 1
              /\ events[1] = NewEventStore(events[1].DataEvent)

\* the market-data events of the records of every Timeline are those of before
DataEventsKept ==
    \A t \in Exchanges \X Assets \X Pairs :
        LET old == TimelineOf(s, t[1], t[2], t[3])
            new == TimelineOf(s', t[1], t[2], t[3])
        IN  /\ Len(new) = Len(old)
            /\ \A i \in 1..Len(old) : new[i].DataEvent = old[i].DataEvent

\* C15 as stated: no SetEventForOffset, AddHoldingsForTime or
\* AddComplianceSnapshotForTime call replaces the market-data event of a record.
C15_DataEventNeverReplaced ==
    [][(calls' = calls + 1
          /\ ret'.op \in {"SetEventForOffset", "AddHoldingsForTime",
                           "AddComplianceSnapshotForTime"})
          => DataEventsKept]_vars

\* C15 amended: AddHoldingsForTime, AddComplianceSnapshotForTime and
\* SetEventForOffset with a signal, order, fill or unknown event leave every
\* record's market-data event as it was; SetEventForOffset with a market-data
\* event replaces the market-data event of the most recent record with its
\* offset by that event, and no other.
C15_OnlyDataEventReplacesData ==
    [][/\ \A ev \in EventHandlers \ DataEvents :
             Call(SetEventForOffset(ev)) => DataEventsKept
       /\ \A h \in Holdings : Call(AddHoldingsForTime(h)) => DataEventsKept
       /\ \A c \in Snapshots, e \in ComplianceEvents \cup {NilEvent} :
             Call(AddComplianceSnapshotForTime(c, e)) => DataEventsKept
       /\ \A ev \in DataEvents :
             Call(SetEventForOffset(ev)) =>
                 LET events == TimelineOf(s, ev.Exchange, ev.Asset, ev.Pair)
                 IN  IF SomeWithOffset(events, ev.Offset)
                     THEN \A i \in 1..Len(events) :
                             MostRecentWithOffset(events, i, ev.Offset) =>
                                 s' = WithField(s, ev.Exchange, ev.Asset, ev.Pair,
                                                i, "DataEvent", ev)
                     ELSE s' = s]_vars

\* C15 witness: SetEventForOffset with a market-data event has made the later
\* of two records hold the market-data event of the earlier one
C15_Witness ==
    /\ ret = [op |-> "SetEventForOffset", err |-> NoError]
    /\ \E t \in TuplesOf(s.ExchangeAssetPairStatistics) :
          LET events == TimelineOf(s, t[1], t[2], t[3])
          IN  /\ Len(events) = 2
              /\ events[1].DataEvent = events[2].DataEvent

\* C16 as stated: SetupEventForTime with a nil event fails with the
\* nil-argument error and leaves the store as it was.
C16_NilEventIsNilArgument ==
    [][Call(SetupEventForTime(NilEvent)) =>
          (ret'.err = ErrNilArguments /\ s' = s)]_vars

\* C16 amended: SetupEventForTime with a nil event fails with the nil-event
\* error and leaves the store as it was: no map level and no Timeline is made.
C16_NilEventRejected ==
    [][Call(SetupEventForTime(NilEvent)) =>
          (ret'.err = ErrNilEvent /\ s' = s)]_vars

\* C16 witness: a nil event was refused and the map is still nil
C16_Witness ==
    /\ ret = [op |-> "SetupEventForTime", err |-> ErrNilEvent]
    /\ s.mapIsNil
    /\ s.ExchangeAssetPairStatistics = EmptyMap

\* C17: AddHoldingsForTime sets the Holdings field, and
\* AddComplianceSnapshotForTime the Transactions field, of the most recent
\* record with the argument's offset and nothing else in the store;
\* AddComplianceSnapshotForTime with a nil event fails with the nil-event error
\* whatever the store, the uninitialized one included, and changes nothing.
C17_AttachSetsOneField ==
    [][/\ \A h \in Holdings :
             LET events == TimelineOf(s, h.Exchange, h.Asset, h.Pair)
             IN  \A i \in 1..Len(events) :
                   (MostRecentWithOffset(events, i, h.Offset) /\ Call(AddHoldingsForTime(h))) =>
                       /\ ret'.err = NoError
                       /\ s' = WithField(s, h.Exchange, h.Asset, h.Pair, i, "Holdings", h)
       /\ \A c \in Snapshots, e \in ComplianceEvents :
             LET events == TimelineOf(s, e.Exchange, e.Asset, e.Pair)
             IN  \A i \in 1..Len(events) :
                   (MostRecentWithOffset(events, i, e.Offset)
                      /\ Call(AddComplianceSnapshotForTime(c, e))) =>
                       /\ ret'.err = NoError
                       /\ s' = WithField(s, e.Exchange, e.Asset, e.Pair, i, "Transactions", c)
       /\ \A c \in Snapshots :
             Call(AddComplianceSnapshotForTime(c, NilEvent)) =>
                 (ret'.err = ErrNilEvent /\ s' = s)]_vars

\* C17 witness: of two records with the same offset the later one got the
\* compliance snapshot
C17_Witness ==
    /\ ret = [op |-> "AddComplianceSnapshotForTime", err |-> NoError]
    /\ \E t \in TuplesOf(s.ExchangeAssetPairStatistics) :
          LET events == TimelineOf(s, t[1], t[2], t[3])
          IN  /\ Len(events) = 2
              /\ events[1].DataEvent.Offset = events[2].DataEvent.Offset
              /\ events[2] = [NewEventStore(events[2].DataEvent)
                                 EXCEPT !.Transactions = [Orders |-> 1]]
              /\ events[1] = NewEventStore(events[1].DataEvent)

----------------------------------------------------------------------------
\* Properties of the chronological audit merge.

\* the event of a record the merge renders: fill before signal before market data
RenderedEvent(record) ==
    IF record.FillEvent # NilEvent THEN record.FillEvent
    ELSE IF record.SignalEvent # NilEvent THEN record.SignalEvent
    ELSE record.DataEvent

\* the events rendered for the records of the tuples order[k], order[k+1], ...,
\* tuple by tuple and, within a tuple, in Timeline order
RECURSIVE RenderedFrom(_, _, _)
RenderedFrom(st, order, k) ==
    IF k > Len(order) THEN <<>>
    ELSE LET events == TimelineOf(st, order[k][1], order[k][2], order[k][3])
         IN  [i \in 1..Len(events) |-> RenderedEvent(events[i])]
                \o RenderedFrom(st, order, k + 1)

\* the lines of the events of rendered whose time is tm, in their order
LinesAt(rendered, tm) ==
    LET at == SelectSeq(rendered, LAMBDA ev : ev.Time = tm)
    IN  [i \in 1..Len(at) |-> Sprintf(at[i])]

\* C18: the buckets logged by the audit merge have strictly ascending times
\* (so no two share a time), whatever the order the map was ranged over; for
\* one such order, every bucket holds exactly the lines of the records whose
\* rendered event (fill before signal before market data) has the bucket's
\* time, one line per record, in the order the records were visited, and every
\* record's line is in a bucket.
C18_ChronologicalMerge ==
    ret.op = "CalculateAllResults" =>
        LET b == printLog.results
        IN  /\ \A i, j \in 1..Len(b) : i < j => b[i].Time < b[j].Time
            /\ \E order \in IterationOrders(s.ExchangeAssetPairStatistics) :
                  LET rendered == RenderedFrom(s, order, 1)
                  IN  /\ \A i \in 1..Len(b) :
                            /\ b[i].Events # <<>>
                            /\ b[i].Events = LinesAt(rendered, b[i].Time)
                      /\ \A k \in 1..Len(rendered) :
                            \E i \in 1..Len(b) : b[i].Time = rendered[k].Time

\* C18 witness: a Timeline whose first record is later than its second was
\* merged into two buckets, the later record's line in the second
C18_Witness ==
    /\ ret.op = "CalculateAllResults"
    /\ Len(printLog.results) = 2
    /\ \E t \in TuplesOf(s.ExchangeAssetPairStatistics) :
          LET events == TimelineOf(s, t[1], t[2], t[3])
          IN  /\ Len(events) = 2
              /\ events[1].DataEvent.Time > events[2].DataEvent.Time
              /\ printLog.results[2].Events = <<Sprintf(events[1].DataEvent)>>
              /\ printLog.results[1].Events = <<Sprintf(events[2].DataEvent)>>

----------------------------------------------------------------------------
\* Further properties of the selectors and of the aggregator.

\* the entries of results have pairwise distinct, nonzero values of metric f
DistinctNonzero(results, f) ==
    /\ \A i \in 1..Len(results) : results[i][f] # 0
    /\ \A i, j \in 1..Len(results) : i # j => results[i][f] # results[j][f]

\* idx points at an entry of results whose metric f no entry exceeds
IsGreatest(results, f, idx) ==
    /\ idx \in 1..Len(results)
    /\ \A i \in 1..Len(results) : results[i][f] <= results[idx][f]

\* C19 as stated: on a non-empty results list whose entries have distinct
\* nonzero metrics each of the three selectors returns the entry with the
\* greatest metric.
C19_GreatestOfDistinctNonzero ==
    LET r == best.results
    IN  (best.called /\ Len(r) >= 1) =>
            /\ DistinctNonzero(r, "MarketMovement")
                  => IsGreatest(r, "MarketMovement", best.market)
            /\ DistinctNonzero(r, "StrategyMovement")
                  => IsGreatest(r, "StrategyMovement", best.strategy)
            /\ DistinctNonzero(r, "MaxDrawdown")
                  => IsGreatest(r, "MaxDrawdown", best.drawdown)

----------------------------------------------------------------------------
\* Further properties of the sizing engine.

\* C21: calculateBuySize and calculateSellSize with a zero MaximumSize and
\* positive funds return, without error, the least of the directional limit,
\* the funds ceiling and (for a nonzero MaximumTotal) the exposure ceiling,
\* provided that quantity is not below MinimumSize; it is the directional
\* limit itself when that is the least of them.
C21_ZeroMaximumSizeNoClamp ==
    (SizeCalled /\ size.args.c.MaximumSize = DecZero
       /\ DecLess(DecZero, size.args.availableFunds)
       /\ DecLessEq(size.args.c.MinimumSize, LargestAllocatable(size.args)))
    => /\ size.res = [err |-> NoError, amount |-> LargestAllocatable(size.args)]
       /\ ( /\ DecLessEq(size.args.limit,
                          Ceiling(size.args.availableFunds, size.args.feeRate,
                                  size.args.price))
            /\ (size.args.c.MaximumTotal = DecZero
                   \/ DecLessEq(size.args.limit, ExposureCeiling(size.args))) )
           => size.res.amount = size.args.limit

\* C21 witness: TestMaximumSellSizeEqualZero returns the sell limit
C21_Witness ==
    /\ size.fn = "calculateSellSize"
    /\ size.args.c = MinMax(Dec(1, 1), Dec(0, 1), Dec(1437, 1))
    /\ size.args.price = Dec(1338, 1)
    /\ size.args.availableFunds = Dec(13380, 1)
    /\ size.args.feeRate = Dec(2, 100)
    /\ size.args.limit = Dec(1, 1)
    /\ size.res = [err |-> NoError, amount |-> Dec(1, 1)]

----------------------------------------------------------------------------
\* Invariants of the store and the second CalculateAllResults.

\* C22: every key of the nested map leads to a Timeline, and every Timeline
\* holds at least one record, so that CalculateAllResults finds a first and a
\* terminal record for every tuple it ranges over.
C22_TimelinesNonEmpty ==
    LET m == s.ExchangeAssetPairStatistics
    IN  \A ex \in DOMAIN m : \A a \in DOMAIN m[ex] : \A p \in DOMAIN m[ex][a] :
            /\ m[ex][a][p] # NilStat
            /\ Len(m[ex][a][p].Events) >= 1

\* C22 witness: CalculateAllResults has ranged over two Timelines
C22_Witness ==
    /\ ret = [op |-> "CalculateAllResults", err |-> NoError]
    /\ Cardinality(TuplesOf(s.ExchangeAssetPairStatistics)) = 2
    /\ Len(fundLog) = 2
    /\ \A t \in TuplesOf(s.ExchangeAssetPairStatistics) :
          Len(TimelineOf(s, t[1], t[2], t[3])) = 1

\* C23: every record of the store has a market-data event, and the audit merge
\* of CalculateAllResults has collected no error.
C23_NoStructuralError ==
    /\ \A t \in TuplesOf(s.ExchangeAssetPairStatistics) :
          LET events == TimelineOf(s, t[1], t[2], t[3])
          IN  \A i \in 1..Len(events) : events[i].DataEvent \in DataEvents
    /\ printLog.errs = <<>>

\* C23 witness: the audit merge ran over a record with holdings and no fill or
\* signal, and logged the line of its market-data event and no error
C23_Witness ==
    /\ ret.op = "CalculateAllResults"
    /\ printLog.errs = <<>>
    /\ \E t \in TuplesOf(s.ExchangeAssetPairStatistics) :
          LET events == TimelineOf(s, t[1], t[2], t[3])
          IN  /\ Len(events) = 1
              /\ events[1].Holdings \in Holdings
              /\ events[1].FillEvent = NilEvent
              /\ events[1].SignalEvent = NilEvent
              /\ printLog.results = <<[Time |-> events[1].DataEvent.Time,
                                       Events |-> <<Sprintf(events[1].DataEvent)>>]>>

\* the map's Timelines carry the results the calculator left the time before
SameCalculation == s'.ExchangeAssetPairStatistics = s.ExchangeAssetPairStatistics

\* C24 as stated: a CalculateAllResults call that follows a CalculateAllResults
\* call, both without error and the calculator's results the same, leaves the
\* buy, sell and order totals and the results list s.AllStats as they were.
C24_SecondCallChangesNothing ==
    [][(/\ ret = [op |-> "CalculateAllResults", err |-> NoError]
        /\ ret' = [op |-> "CalculateAllResults", err |-> NoError]
        /\ calls' = calls + 1
        /\ SameCalculation)
          => /\ s'.TotalBuyOrders = s.TotalBuyOrders
             /\ s'.TotalSellOrders = s.TotalSellOrders
             /\ s'.TotalOrders = s.TotalOrders
             /\ s'.AllStats = s.AllStats]_vars

====
